---- MODULE Spec2Model ----
(***************************************************************************)
(* Model of the kanban board backend (src/index.js): an express app and a  *)
(* socket.io server over one Prisma store of containers and items.         *)
(*                                                                         *)
(* Every `await` of a handler is a suspension point, so a handler is a     *)
(* sequence of steps, one per store operation, and the steps of handlers   *)
(* in flight interleave.  The n-th request is served in slot n, where its  *)
(* answer stays once its handler has returned.                             *)
(*                                                                         *)
(* A socket handler is an async function nobody awaits and without a       *)
(* catch: when it rejects, the rejection is unhandled and Node (15 and     *)
(* later, the default --unhandled-rejections=throw) ends the process.      *)
(***************************************************************************)
EXTENDS Integers, Sequences, FiniteSets, TLC

\* ------------------------------------------------------------------ bounds
MaxPos == 1          \* positions sent by clients range over 0..MaxPos
MaxRequests == 2     \* requests served in one behaviour, all may overlap
MaxUuids == 2        \* distinct values generateUUID may return

\* ------------------------------------------------------------- identifiers
UuidPool == <<"0a1b2c3d", "4e5f6a7b", "8c9d0e1f">>
Uuids == {UuidPool[n] : n \in 1..MaxUuids}

generateUUID == Uuids

MintContainerId(u) == "container-" \o u
MintItemId(u) == "item-" \o u

\* Rows the database already holds when the server starts: ids written by
\* other means than this API, short enough for the routes that validate ids.
SeedContainerIds == {"contA", "contB"}
SeedItemIds == {"item1", "item2", "item3"}

\* An id no row ever has.
GhostId == "ghost"

Slots == 1..MaxRequests
Clients == {"s1", "s2"}
Positions == 0..MaxPos

VARIABLES
  containers,   \* table Container: id -> [title, position]
  items,        \* table Item: id -> [title, position, containerId]
  locks,        \* row locks of open transactions: item id -> slot
  pc,           \* slot -> where its handler stands
  req,          \* slot -> the request it serves
  loc,          \* slot -> the handler's local variables
  connected,    \* sockets connected to the io server
  closed,       \* sockets that have disconnected
  inbox,        \* socket -> the events emitted to it, in order
  nreq,         \* requests started so far
  pre,          \* slot -> the tables as they were when its request started
  lastReorder   \* the last committed reorder, while nothing was written since

vars == <<containers, items, locks, pc, req, loc, connected, closed, inbox,
          nreq, pre, lastReorder>>

\* ------------------------------------------------------------------- store
EmptyFn == <<>>

\* express-validator: param('id').isString().isLength({ min: 5, max: 8 })
isLength(str, min, max) == Len(str) >= min /\ Len(str) <= max

ValidId(id) == isLength(id, 5, 8)

\* body('title').isString().notEmpty()
notEmpty(str) == Len(str) > 0

\* The relation Item.containerId -> Container.id is declared in the Prisma
\* schema, which is not part of the sources; the design notes say deleting a
\* container leaves its items behind as orphaned references, so the store
\* enforces no foreign key.
RelationEnforced == FALSE

ContainerRefOk(cs, cid) == RelationEnforced => cid \in DOMAIN cs

Max(S) == CHOOSE x \in S : \A y \in S : y <= x

\* findFirst({ orderBy: { position: 'desc' } }) then
\* lastContainer ? lastContainer.position + 1 : 0
NewContainerPosition(cs) ==
  IF DOMAIN cs = {} THEN 0
  ELSE Max({cs[c].position : c \in DOMAIN cs}) + 1

NewItemPositionCount(its, cid) ==
  Cardinality({i \in DOMAIN its : its[i].containerId = cid})

\* findFirst({ where: { containerId }, orderBy: { position: 'desc' } }) then
\* lastItem ? lastItem.position + 1 : 0
NewItemPosition(its, cid) ==
  LET mine == {i \in DOMAIN its : its[i].containerId = cid}
  IN  IF mine = {} THEN 0
      ELSE Max({its[i].position : i \in mine}) + 1

\* Prisma's update: a field given as undefined is left as it is.
ApplyPatch(row, patch) ==
  [f \in DOMAIN row |-> IF f \in DOMAIN patch THEN patch[f] ELSE row[f]]

Insert(table, id, row) ==
  [x \in DOMAIN table \cup {id} |-> IF x = id THEN row ELSE table[x]]

RemoveAndCompact(table, id) ==
  [x \in DOMAIN table \ {id} |->
     IF table[x].position > table[id].position
     THEN [table[x] EXCEPT !.position = table[x].position - 1]
     ELSE table[x]]

\* delete({ where: { id } }): the row goes, every other row stays as it is.
Remove(table, id) == [x \in DOMAIN table \ {id} |-> table[x]]

\* ---------------------------------------------------------------- snapshot
\* The orderings of the rows S of table ascending in position: orderBy position
\* 'asc' names no second key, so rows of equal position come in any order.
SortedSeqs(S, table) ==
  {q \in [1..Cardinality(S) -> S] :
     /\ \A m, n \in 1..Cardinality(S) : m < n => q[m] # q[n]
     /\ \A m, n \in 1..Cardinality(S) :
          m < n => table[q[m]].position <= table[q[n]].position}

ItemsOf(its, cid) == {i \in DOMAIN its : its[i].containerId = cid}

ItemRow(its, i) ==
  [id |-> i, title |-> its[i].title, position |-> its[i].position,
   containerId |-> its[i].containerId]

\* container.findMany({ include: { items: { orderBy: { position: 'asc' } } },
\*                      orderBy: { position: 'asc' } })
Snapshots(cs, its) ==
  LET corders == SortedSeqs(DOMAIN cs, cs)
      iorders == [c \in DOMAIN cs |-> SortedSeqs(ItemsOf(its, c), its)]
  IN  {[n \in 1..Len(co) |->
          [id |-> co[n], title |-> cs[co[n]].title,
           position |-> cs[co[n]].position,
           items |-> [m \in 1..Len(io[co[n]]) |-> ItemRow(its, io[co[n]][m])]]] :
        co \in corders,
        io \in {f \in [DOMAIN cs -> UNION {iorders[c] : c \in DOMAIN cs}] :
                  \A c \in DOMAIN cs : f[c] \in iorders[c]}}

\* ------------------------------------------------------------ reorder batch
\* A batch is a list of [id, items], items a list of [id, position].
RECURSIVE FlattenItems(_, _)
FlattenItems(cid, its) ==
  IF its = <<>> THEN <<>>
  ELSE <<[id |-> Head(its).id, position |-> Head(its).position,
          containerId |-> cid]>> \o FlattenItems(cid, Tail(its))

\* for (const container of containers) for (const item of items): the updates
\* in the order the loops issue them.
RECURSIVE Flatten(_)
Flatten(batch) ==
  IF batch = <<>> THEN <<>>
  ELSE FlattenItems(Head(batch).id, Head(batch).items) \o Flatten(Tail(batch))

\* prisma.item.update({ where: { id: item.id },
\*                      data: { position: item.position, containerId: id } })
\* inside the transaction: the write is the transaction's own until it commits.
TxWritePositionOnly(buf, u) == Insert(buf, u.id, [position |-> u.position])

TxWriteFirstWins(buf, u) ==
  IF u.id \in DOMAIN buf THEN buf
  ELSE Insert(buf, u.id, [position |-> u.position, containerId |-> u.containerId])

TxWrite(buf, u) ==
  Insert(buf, u.id, [position |-> u.position, containerId |-> u.containerId])

TxUpdateDirect(its, buf, u) ==
  [items |-> [i \in DOMAIN its |->
                IF i = u.id
                THEN [its[i] EXCEPT !.position = u.position,
                                    !.containerId = u.containerId]
                ELSE its[i]],
   buf |-> TxWrite(buf, u)]

\* One update issued on the transaction's client: the table the other
\* connections read stays as it is, the write joins the transaction's own.
TxUpdateEffect(its, buf, u) == [items |-> its, buf |-> TxWrite(buf, u)]

TxCommitReplace(its, buf) ==
  [i \in DOMAIN its \cap DOMAIN buf |-> ApplyPatch(its[i], buf[i])]

TxCommitShift(its, buf) ==
  [i \in DOMAIN its |->
     IF i \in DOMAIN buf
     THEN [its[i] EXCEPT !.position = its[i].position + buf[i].position,
                         !.containerId = buf[i].containerId]
     ELSE its[i]]

TxCommitMixed(its, buf) ==
  [i \in DOMAIN its |->
     IF i \in DOMAIN buf
     THEN [its[i] EXCEPT !.position = buf[i].position]
     ELSE its[i]]

\* The transaction's callback returned: its writes reach the table together.
TxCommit(its, buf) ==
  [i \in DOMAIN its |->
     IF i \in DOMAIN buf THEN ApplyPatch(its[i], buf[i]) ELSE its[i]]

TxRollbackKeeps(its, buf) ==
  [i \in DOMAIN its |->
     IF i \in DOMAIN buf THEN ApplyPatch(its[i], buf[i]) ELSE its[i]]

\* The callback threw: the transaction is rolled back.
TxRollback(its, buf) == its

\* ---------------------------------------------------------------- handlers
NoReq == [kind |-> "none", sock |-> "", id |-> "", title |-> "",
          patch |-> EmptyFn, batch |-> <<>>, rid |-> 0]

\* k: the updates the transaction has issued so far; open: the slots whose
\* transaction had issued an update and not ended when data was read; reply:
\* the status the handler will answer with once its await has resumed;
\* status: the status it has answered with.
NoLoc == [k |-> 0, buf |-> EmptyFn, newPosition |-> 0, data |-> <<>>,
          open |-> {}, status |-> 0, threw |-> FALSE, committed |-> FALSE,
          reply |-> 0]

\* repeat: the reorder committed the batch of the reorder committed just
\* before it, nothing else having run in between.
NoReorder == [valid |-> FALSE, rid |-> 0, batch |-> <<>>, repeat |-> FALSE]

NoPre == [containers |-> EmptyFn, items |-> EmptyFn, last |-> NoReorder]

\* What stays of a handler that has returned: the answer it gave.  Its
\* arguments and its local variables are gone.
ReqDone(r) == [NoReq EXCEPT !.kind = r.kind, !.sock = r.sock, !.rid = r.rid]
LocDone(l, status, threw) ==
  [NoLoc EXCEPT !.status = status, !.threw = threw, !.k = l.k,
                !.data = l.data, !.open = l.open, !.committed = l.committed]

Free(s) == pc[s] \in {"idle", "done"}

\* The Node process runs: no handler has ended it.  pc is "reject" for a
\* socket handler whose promise has rejected, "exit" for the handler whose
\* unhandled rejection ended the process and "cut" for the handlers that
\* were in flight then.
ProcessUp == \A t \in Slots : pc[t] # "exit"

InFlight(t) ==
  pc[t] \in {"tx", "rollback", "find", "read", "emit", "create", "answer", "reject"}

\* The next request takes the next slot, while the server is there to take it.
CanStart(s) == ProcessUp /\ s = nreq + 1

\* The transactions that have written and not ended: a transaction whose
\* update failed is open until its ROLLBACK.
OpenTx == {t \in Slots : pc[t] \in {"tx", "rollback"} /\ loc[t].k > 0}

\* A handler is called and runs to its first await that leaves it waiting.
Begin(s, label, r, l) ==
  /\ CanStart(s)
  /\ nreq' = nreq + 1
  /\ pc' = [pc EXCEPT ![s] = label]
  /\ req' = [req EXCEPT ![s] = [r EXCEPT !.rid = nreq + 1]]
  /\ loc' = [loc EXCEPT ![s] = l]
  /\ pre' = [pre EXCEPT ![s] = [containers |-> containers, items |-> items,
                                last |-> lastReorder]]

\* validate answers 400 before the handler is called: the request is answered
\* in the step that brings it.
Answer(s, r, status, data) ==
  /\ CanStart(s)
  /\ nreq' = nreq + 1
  /\ pc' = [pc EXCEPT ![s] = "done"]
  /\ req' = [req EXCEPT ![s] = ReqDone([r EXCEPT !.rid = nreq + 1])]
  /\ loc' = [loc EXCEPT ![s] = [NoLoc EXCEPT !.status = status,
                                             !.data = data,
                                             !.open = OpenTx]]
  /\ pre' = [pre EXCEPT ![s] = NoPre]

\* A route handler is called and awaits a store call, which the database
\* executes: the handler has yet to resume and to answer.
Call(s, r, reply, data) ==
  /\ CanStart(s)
  /\ nreq' = nreq + 1
  /\ pc' = [pc EXCEPT ![s] = "answer"]
  /\ req' = [req EXCEPT ![s] = ReqDone([r EXCEPT !.rid = nreq + 1])]
  /\ loc' = [loc EXCEPT ![s] = [NoLoc EXCEPT !.reply = reply,
                                             !.data = data,
                                             !.open = OpenTx]]
  /\ pre' = [pre EXCEPT ![s] = NoPre]

\* The database has executed the last store call of a waiting route handler,
\* which has yet to resume and to answer.
Await(s, reply, threw) ==
  /\ pc' = [pc EXCEPT ![s] = "answer"]
  /\ req' = [req EXCEPT ![s] = ReqDone(req[s])]
  /\ loc' = [loc EXCEPT ![s] = [LocDone(loc[s], 0, threw) EXCEPT !.reply = reply]]
  /\ pre' = [pre EXCEPT ![s] = NoPre]

\* A waiting socket handler makes its emit and returns.
Finish(s, status, threw) ==
  /\ pc' = [pc EXCEPT ![s] = "done"]
  /\ req' = [req EXCEPT ![s] = ReqDone(req[s])]
  /\ loc' = [loc EXCEPT ![s] = LocDone(loc[s], status, threw)]
  /\ pre' = [pre EXCEPT ![s] = NoPre]

ReleaseLocks(lk, s) == [i \in {j \in DOMAIN lk : lk[j] # s} |-> lk[i]]

AfterTxSwallowed(kind, ok) ==
  IF kind = "updatedItems" THEN "read" ELSE "answer"

\* Where a reorder handler goes when its transaction has ended: the route
\* resumes to answer in both cases (try/catch); the socket handler has no
\* catch, so a rejected transaction ends it before the re-read and the emit
\* and leaves its rejection pending.
AfterTx(kind, ok) ==
  IF kind = "updatedItems" THEN (IF ok THEN "read" ELSE "reject") ELSE "answer"

\* res.json(...) after the transaction, res.status(500) in the catch; the
\* socket handler answers nothing.
TxStatus(kind, ok) ==
  IF kind = "updatedItems" THEN 0 ELSE IF ok THEN 200 ELSE 500

\* PATCH /api/containers-order-items: validate has no rule to check, the
\* body's containers go to the transaction as they are.
HttpReorderStart(s, batch) ==
  /\ Begin(s, "tx", [NoReq EXCEPT !.kind = "reorder", !.batch = batch], NoLoc)
  /\ UNCHANGED <<containers, items, locks, connected, closed, inbox, lastReorder>>

\* socket.on('updatedItems', async (containers) => ...)
UpdatedItemsStart(s, c, batch) ==
  /\ c \in connected
  /\ Begin(s, "tx", [NoReq EXCEPT !.kind = "updatedItems", !.sock = c,
                                  !.batch = batch], NoLoc)
  /\ UNCHANGED <<containers, items, locks, connected, closed, inbox, lastReorder>>

\* The process ends on the unhandled rejection of handler s: the handlers in
\* flight are cut where they stand and answer nothing, the database rolls
\* back the transactions their connections had open, every socket is dropped.
ProcessExit(s) ==
  /\ locks' = EmptyFn
  /\ pc' = [t \in Slots |-> IF t = s THEN "exit"
                            ELSE IF InFlight(t) THEN "cut" ELSE pc[t]]
  /\ req' = [t \in Slots |-> IF t = s \/ InFlight(t) THEN ReqDone(req[t])
                             ELSE req[t]]
  /\ loc' = [t \in Slots |-> IF t = s THEN LocDone(loc[t], 0, TRUE)
                             ELSE IF InFlight(t)
                               THEN LocDone(loc[t], 0, loc[t].threw)
                             ELSE loc[t]]
  /\ pre' = [t \in Slots |-> IF t = s \/ InFlight(t) THEN NoPre ELSE pre[t]]
  /\ connected' = {}
  /\ closed' = closed \cup connected
  /\ UNCHANGED <<inbox, nreq>>

\* The transaction ends without committing: the database rolls it back and
\* frees its rows, and the promise of prisma.$transaction rejects.  The route's catch answers 500 in a later
\* turn; the socket handler has no catch, its rejection is pending ("reject")
\* while the process still runs the other handlers.
TxAbort(s) ==
  /\ items' = TxRollback(items, loc[s].buf)
  /\ locks' = ReleaseLocks(locks, s)
  /\ pc' = [pc EXCEPT ![s] = AfterTx(req[s].kind, FALSE)]
  /\ IF AfterTx(req[s].kind, FALSE) \in {"answer", "reject"}
     THEN /\ req' = [req EXCEPT ![s] = ReqDone(req[s])]
          /\ loc' = [loc EXCEPT ![s] =
                       [LocDone(loc[s], 0, TRUE) EXCEPT
                          !.reply = TxStatus(req[s].kind, FALSE)]]
          /\ pre' = [pre EXCEPT ![s] = NoPre]
     ELSE /\ loc' = [loc EXCEPT ![s].buf = EmptyFn, ![s].threw = TRUE]
          /\ UNCHANGED <<req, pre>>
  /\ UNCHANGED <<containers, connected, closed, inbox, nreq, lastReorder>>

\* The rejection of the socket handler's promise reaches the event loop with
\* nothing to handle it: Node ends the process.
UnhandledRejection(s) ==
  /\ pc[s] = "reject"
  /\ ProcessExit(s)
  /\ UNCHANGED <<containers, items, lastReorder>>

\* prisma.item.update failed: the error is on its way to the callback of
\* prisma.$transaction, which will send ROLLBACK.  Until then the transaction
\* is open and holds the rows it wrote.
TxFail(s) ==
  /\ pc' = [pc EXCEPT ![s] = "rollback"]
  /\ loc' = [loc EXCEPT ![s].threw = TRUE]
  /\ UNCHANGED <<containers, items, locks, req, connected, closed, inbox, nreq,
                 pre, lastReorder>>

\* The callback of prisma.$transaction has thrown: ROLLBACK.
TxRollbackStep(s) ==
  /\ pc[s] = "rollback"
  /\ TxAbort(s)

\* One pass of the inner loop: await prisma.item.update(...).  An update of a
\* row that does not exist throws (record to update not found); an update of
\* a row another open transaction wrote waits for that transaction.
TxUpdate(s) ==
  /\ pc[s] = "tx"
  /\ loc[s].k < Len(Flatten(req[s].batch))
  /\ LET u == Flatten(req[s].batch)[loc[s].k + 1]
     IN  IF u.id \notin DOMAIN items \/ ~ContainerRefOk(containers, u.containerId)
         THEN TxFail(s)
         ELSE /\ u.id \in DOMAIN locks => locks[u.id] = s
              /\ locks' = Insert(locks, u.id, s)
              /\ items' = TxUpdateEffect(items, loc[s].buf, u).items
              /\ loc' = [loc EXCEPT
                           ![s].buf = TxUpdateEffect(items, loc[s].buf, u).buf,
                           ![s].k = loc[s].k + 1]
              /\ UNCHANGED <<containers, pc, req, connected, closed, inbox, nreq,
                             pre, lastReorder>>

Waiting(s, t) ==
  /\ pc[s] = "tx"
  /\ loc[s].k < Len(Flatten(req[s].batch))
  /\ LET u == Flatten(req[s].batch)[loc[s].k + 1]
     IN  u.id \in DOMAIN locks /\ locks[u.id] = t

\* Two transactions wait for a row of each other: the database ends one of
\* them, rolled back and its rows freed, with an error, which the update
\* throws.
TxDeadlock(s) ==
  /\ \E t \in Slots \ {s} : Waiting(s, t) /\ Waiting(t, s)
  /\ TxAbort(s)

\* Both loops are done: the transaction commits.
TxEnd(s) ==
  /\ pc[s] = "tx"
  /\ loc[s].k = Len(Flatten(req[s].batch))
  /\ items' = TxCommit(items, loc[s].buf)
  /\ locks' = ReleaseLocks(locks, s)
  /\ pc' = [pc EXCEPT ![s] = AfterTx(req[s].kind, TRUE)]
  /\ IF AfterTx(req[s].kind, TRUE) = "answer"
     THEN /\ req' = [req EXCEPT ![s] = ReqDone(req[s])]
          /\ loc' = [loc EXCEPT ![s] =
                       [LocDone([loc[s] EXCEPT !.committed = TRUE], 0, FALSE)
                          EXCEPT !.reply = TxStatus(req[s].kind, TRUE)]]
          /\ pre' = [pre EXCEPT ![s] = NoPre]
     ELSE /\ loc' = [loc EXCEPT ![s].buf = EmptyFn, ![s].committed = TRUE]
          /\ UNCHANGED <<req, pre>>
  /\ lastReorder' = [valid |-> TRUE, rid |-> req[s].rid,
                     batch |-> req[s].batch,
                     repeat |-> /\ lastReorder.valid
                                /\ pre[s].last = lastReorder
                                /\ lastReorder.batch = req[s].batch]
  /\ UNCHANGED <<containers, connected, closed, inbox, nreq>>

\* const newData = await prisma.container.findMany(...)
ReadNewData(s) ==
  /\ pc[s] = "read"
  /\ req[s].kind = "updatedItems"
  /\ \E snap \in Snapshots(containers, items) :
       loc' = [loc EXCEPT ![s].data = snap, ![s].open = OpenTx]
  /\ pc' = [pc EXCEPT ![s] = "emit"]
  /\ UNCHANGED <<containers, items, locks, req, connected, closed, inbox, nreq, pre,
                 lastReorder>>

Message(event, data, rid) == [event |-> event, data |-> data, rid |-> rid]

\* io.emit: to every socket connected when it is called.
IoEmitTargets(conn, sock) == conn

\* socket.emit: to the socket of the handler, if it is still connected.
SocketEmitTargets(conn, sock) == conn \cap {sock}

Deliver(box, targets, msg) ==
  [c \in Clients |-> IF c \in targets THEN Append(box[c], msg) ELSE box[c]]

\* io.emit('dataUpdated', newData)
EmitDataUpdated(s) ==
  /\ pc[s] = "emit"
  /\ req[s].kind = "updatedItems"
  /\ inbox' = Deliver(inbox, IoEmitTargets(connected, req[s].sock),
                      Message("dataUpdated", loc[s].data, req[s].rid))
  /\ pc' = [pc EXCEPT ![s] = "done"]
  /\ req' = [req EXCEPT ![s] = ReqDone(req[s])]
  /\ loc' = [loc EXCEPT ![s] = LocDone(loc[s], 0, loc[s].threw)]
  /\ pre' = [pre EXCEPT ![s] = NoPre]
  /\ UNCHANGED <<containers, items, locks, connected, closed, nreq, lastReorder>>

\* io.on('connection', ...): a socket connects once; a client that comes
\* back is another socket.
Connect(c) ==
  /\ ProcessUp
  /\ c \notin connected \cup closed
  /\ connected' = connected \cup {c}
  /\ UNCHANGED <<containers, items, locks, pc, req, loc, closed, inbox, nreq,
                 pre, lastReorder>>

\* socket.on('disconnect', ...): the server keeps nothing of the socket.
Disconnect(c) ==
  /\ c \in connected
  /\ connected' = connected \ {c}
  /\ closed' = closed \cup {c}
  /\ UNCHANGED <<containers, items, locks, pc, req, loc, inbox, nreq, pre,
                 lastReorder>>

\* ------------------------------------------------------------ the routes
\* A route handler resumes after its store call and answers: res.json(...),
\* res.status(...).send() or, from the catch, res.status(500).json(...).
Respond(s) ==
  /\ pc[s] = "answer"
  /\ pc' = [pc EXCEPT ![s] = "done"]
  /\ loc' = [loc EXCEPT ![s].status = loc[s].reply, ![s].reply = 0]
  /\ UNCHANGED <<containers, items, locks, req, connected, closed, inbox, nreq,
                 pre, lastReorder>>

\* GET /api/containers, to the await of findMany.
ListContainers(s) ==
  /\ \E snap \in Snapshots(containers, items) :
       Call(s, [NoReq EXCEPT !.kind = "listContainers"], 200, snap)
  /\ UNCHANGED <<containers, items, locks, connected, closed, inbox, lastReorder>>

\* GET /api/containers/:id, to the await of findUnique.
GetContainer(s, id) ==
  /\ LET r == [NoReq EXCEPT !.kind = "getContainer", !.id = id]
     IN  IF ~ValidId(id) THEN Answer(s, r, 400, <<>>)
         ELSE IF id \notin DOMAIN containers THEN Call(s, r, 404, <<>>)
         ELSE \E snap \in Snapshots(containers, items) :
                \E n \in 1..Len(snap) :
                   snap[n].id = id /\ Call(s, r, 200, <<snap[n]>>)
  /\ UNCHANGED <<containers, items, locks, connected, closed, inbox, lastReorder>>

\* POST /api/containers, to the await of findFirst: the handler holds the
\* position it computed from the row it read.
CreateContainerStart(s, title) ==
  /\ LET r == [NoReq EXCEPT !.kind = "createContainer", !.title = title]
     IN  IF ~notEmpty(title) THEN Answer(s, r, 400, <<>>)
         ELSE Begin(s, "create", r,
                    [NoLoc EXCEPT !.newPosition = NewContainerPosition(containers)])
  /\ UNCHANGED <<containers, items, locks, connected, closed, inbox, lastReorder>>

\* POST /api/containers/:containerId/items, to the await of findFirst.
CreateItemStart(s, containerId, title) ==
  /\ LET r == [NoReq EXCEPT !.kind = "createItem", !.id = containerId,
                            !.title = title]
     IN  IF ~notEmpty(title) THEN Answer(s, r, 400, <<>>)
         ELSE Begin(s, "create", r,
                    [NoLoc EXCEPT !.newPosition = NewItemPosition(items, containerId)])
  /\ UNCHANGED <<containers, items, locks, connected, closed, inbox, lastReorder>>

\* prisma.container.create / prisma.item.create with the position held; an
\* id that exists already violates the primary key and the create throws.
\* The handler answers when it resumes.
CreateInsert(s) ==
  /\ pc[s] = "create"
  /\ \E u \in generateUUID :
       IF req[s].kind = "createContainer"
       THEN IF MintContainerId(u) \in DOMAIN containers
            THEN Await(s, 500, TRUE) /\ UNCHANGED <<containers, items, lastReorder>>
            ELSE /\ containers' = Insert(containers, MintContainerId(u),
                                         [title |-> req[s].title,
                                          position |-> loc[s].newPosition])
                 /\ lastReorder' = NoReorder
                 /\ Await(s, 201, FALSE)
                 /\ UNCHANGED items
       ELSE IF \/ MintItemId(u) \in DOMAIN items
               \/ ~ContainerRefOk(containers, req[s].id)
            THEN Await(s, 500, TRUE) /\ UNCHANGED <<containers, items, lastReorder>>
            ELSE /\ items' = Insert(items, MintItemId(u),
                                    [title |-> req[s].title,
                                     position |-> loc[s].newPosition,
                                     containerId |-> req[s].id])
                 /\ lastReorder' = NoReorder
                 /\ Await(s, 201, FALSE)
                 /\ UNCHANGED containers
  /\ UNCHANGED <<locks, connected, closed, inbox, nreq>>

\* PATCH /api/containers/:id, to the await of update: update throws when no
\* row has the id, and the catch will answer 500.
UpdateContainer(s, id, patch) ==
  /\ LET r == [NoReq EXCEPT !.kind = "updateContainer", !.id = id,
                            !.patch = patch]
     IN  IF ~ValidId(id)
         THEN Answer(s, r, 400, <<>>) /\ UNCHANGED <<containers, lastReorder>>
         ELSE IF id \notin DOMAIN containers
         THEN Call(s, r, 500, <<>>) /\ UNCHANGED <<containers, lastReorder>>
         ELSE /\ containers' = [containers EXCEPT
                                  ![id] = ApplyPatch(containers[id], patch)]
              /\ lastReorder' = NoReorder
              /\ Call(s, r, 200, <<>>)
  /\ UNCHANGED <<items, locks, connected, closed, inbox>>

\* DELETE /api/containers/:id, to the await of delete.
DeleteContainer(s, id) ==
  /\ LET r == [NoReq EXCEPT !.kind = "deleteContainer", !.id = id]
     IN  IF ~ValidId(id)
         THEN Answer(s, r, 400, <<>>) /\ UNCHANGED <<containers, lastReorder>>
         ELSE IF \/ id \notin DOMAIN containers
                 \/ (RelationEnforced /\ ItemsOf(items, id) # {})
         THEN Call(s, r, 500, <<>>) /\ UNCHANGED <<containers, lastReorder>>
         ELSE /\ containers' = Remove(containers, id)
              /\ lastReorder' = NoReorder
              /\ Call(s, r, 204, <<>>)
  /\ UNCHANGED <<items, locks, connected, closed, inbox>>

\* body('containerId').optional().isString().isLength({ min: 5, max: 8 })
ValidItemPatch(patch) ==
  "containerId" \in DOMAIN patch => ValidId(patch.containerId)

\* PATCH /api/items/:id: validate answers 400 before the store is called;
\* the update waits while an open transaction holds the row.
UpdateItem(s, id, patch) ==
  /\ (ValidId(id) /\ ValidItemPatch(patch)) => id \notin DOMAIN locks
  /\ LET r == [NoReq EXCEPT !.kind = "updateItem", !.id = id, !.patch = patch]
     IN  IF ~ValidId(id) \/ ~ValidItemPatch(patch)
         THEN Answer(s, r, 400, <<>>) /\ UNCHANGED <<items, lastReorder>>
         ELSE IF \/ id \notin DOMAIN items
                 \/ ("containerId" \in DOMAIN patch
                       /\ ~ContainerRefOk(containers, patch.containerId))
         THEN Call(s, r, 500, <<>>) /\ UNCHANGED <<items, lastReorder>>
         ELSE /\ items' = [items EXCEPT ![id] = ApplyPatch(items[id], patch)]
              /\ lastReorder' = NoReorder
              /\ Call(s, r, 200, <<>>)
  /\ UNCHANGED <<containers, locks, connected, closed, inbox>>

\* DELETE /api/items/:id: validate answers 400 before the store is called;
\* the delete waits while an open transaction holds the row.
DeleteItem(s, id) ==
  /\ ValidId(id) => id \notin DOMAIN locks
  /\ LET r == [NoReq EXCEPT !.kind = "deleteItem", !.id = id]
     IN  IF ~ValidId(id)
         THEN Answer(s, r, 400, <<>>) /\ UNCHANGED <<items, lastReorder>>
         ELSE IF id \notin DOMAIN items
         THEN Call(s, r, 500, <<>>) /\ UNCHANGED <<items, lastReorder>>
         ELSE /\ items' = Remove(items, id)
              /\ lastReorder' = NoReorder
              /\ Call(s, r, 204, <<>>)
  /\ UNCHANGED <<containers, locks, connected, closed, inbox>>

\* socket.on('requestInitialData'), to the await of findMany: the query is
\* sent, the database has not run it yet.
RequestInitialData(s, c) ==
  /\ c \in connected
  /\ Begin(s, "find", [NoReq EXCEPT !.kind = "requestInitialData", !.sock = c],
           NoLoc)
  /\ UNCHANGED <<containers, items, locks, connected, closed, inbox, lastReorder>>

\* const containers = await prisma.container.findMany(...): the database runs
\* the query, on the store as it is then, whether the socket is still there
\* or not.
ReadInitialData(s) ==
  /\ pc[s] = "find"
  /\ req[s].kind = "requestInitialData"
  /\ \E snap \in Snapshots(containers, items) :
       loc' = [loc EXCEPT ![s].data = snap, ![s].open = OpenTx]
  /\ pc' = [pc EXCEPT ![s] = "emit"]
  /\ UNCHANGED <<containers, items, locks, req, connected, closed, inbox, nreq, pre,
                 lastReorder>>

\* socket.emit('initialData', containers)
EmitInitialData(s) ==
  /\ pc[s] = "emit"
  /\ req[s].kind = "requestInitialData"
  /\ inbox' = Deliver(inbox, SocketEmitTargets(connected, req[s].sock),
                      Message("initialData", loc[s].data, req[s].rid))
  /\ Finish(s, 0, FALSE)
  /\ UNCHANGED <<containers, items, locks, connected, closed, nreq, lastReorder>>

\* ------------------------------------------------------------ initial state
Row(t, p) == [title |-> t, position |-> p]
ItemRec(t, p, c) == [title |-> t, position |-> p, containerId |-> c]

EmptyStore == [containers |-> EmptyFn, items |-> EmptyFn]

\* Container contA holds item1, item2 and container contB holds item3.
BoardStore ==
  [containers |-> [c \in SeedContainerIds |->
                     IF c = "contA" THEN Row("a", 0) ELSE Row("b", 1)],
   items |-> [i \in SeedItemIds |->
                IF i = "item1" THEN ItemRec("a", 0, "contA")
                ELSE IF i = "item2" THEN ItemRec("b", 1, "contA")
                ELSE ItemRec("a", 0, "contB")]]

InitWith(stores) ==
  /\ \E st \in stores : containers = st.containers /\ items = st.items
  /\ locks = EmptyFn
  /\ pc = [s \in Slots |-> "idle"]
  /\ req = [s \in Slots |-> NoReq]
  /\ loc = [s \in Slots |-> NoLoc]
  /\ connected = {}
  /\ closed = {}
  /\ inbox = [c \in Clients |-> <<>>]
  /\ nreq = 0
  /\ pre = [s \in Slots |-> NoPre]
  /\ lastReorder = NoReorder

Init == InitWith({EmptyStore, BoardStore})

\* ------------------------------------------------------------------ inputs
BatchItems(ids) == [id : ids, position : Positions]

\* The batches of one container entry with one item, of one entry with two
\* items, and of two entries of different containers with one item each.
BatchesOver(cids, ids) ==
  {<<[id |-> c, items |-> <<u>>]>> : c \in cids, u \in BatchItems(ids)}
  \cup {<<[id |-> c, items |-> <<u, v>>]>> :
          c \in cids, u \in BatchItems(ids), v \in BatchItems(ids)}
  \cup {<<[id |-> p[1], items |-> <<u>>], [id |-> p[2], items |-> <<v>>]>> :
          p \in {q \in cids \X cids : q[1] # q[2]},
          u \in BatchItems(ids), v \in BatchItems(ids)}

\* Moves item3 to the head of contA and shifts item1, item2 behind it.
ExampleBatch ==
  <<[id |-> "contA",
     items |-> <<[id |-> "item3", position |-> 0],
                 [id |-> "item1", position |-> 1],
                 [id |-> "item2", position |-> 2]>>]>>

ReorderBatches ==
  BatchesOver(SeedContainerIds, {"item1", GhostId}) \cup {ExampleBatch}

\* ------------------------------------------------- reorder, one at a time
\* No handler is in flight.
Idle == \A t \in Slots : Free(t)

ReorderNext ==
  \E s \in Slots :
    \/ \E b \in ReorderBatches : Idle /\ HttpReorderStart(s, b)
    \/ \E b \in ReorderBatches : Idle /\ UpdatedItemsStart(s, "s1", b)
    \/ TxUpdate(s)
    \/ TxRollbackStep(s)
    \/ TxEnd(s)
    \/ Respond(s)
    \/ ReadNewData(s)
    \/ EmitDataUpdated(s)
    \/ UnhandledRejection(s)
    \/ Connect("s1")

ReorderSpec == InitWith({BoardStore}) /\ [][ReorderNext]_vars

\* --------------------------------------- the channel, handlers interleaved
Upd(i, p) == [id |-> i, position |-> p]
Entry(c, its) == [id |-> c, items |-> its]

ChannelBatches ==
  {<<Entry("contB", <<Upd("item1", 0)>>)>>,
   <<Entry("contA", <<Upd("item1", 1), Upd("item2", 0)>>)>>,
   <<Entry("contA", <<Upd("item2", 1)>>), Entry("contB", <<Upd("item1", 1)>>)>>,
   <<Entry("contA", <<Upd("item2", 0), Upd(GhostId, 1)>>)>>}

HttpBatches ==
  {<<Entry("contB", <<Upd("item1", 0)>>)>>,
   <<Entry("contA", <<Upd("item2", 0), Upd("item1", 1)>>)>>}

ChannelNext ==
  \/ \E s \in Slots :
       \/ \E b \in ChannelBatches : UpdatedItemsStart(s, "s1", b)
       \/ \E b \in HttpBatches : HttpReorderStart(s, b)
       \/ TxUpdate(s)
       \/ TxRollbackStep(s)
       \/ TxDeadlock(s)
       \/ TxEnd(s)
       \/ Respond(s)
       \/ ReadNewData(s)
       \/ EmitDataUpdated(s)
       \/ UnhandledRejection(s)
       \/ ListContainers(s)
       \/ RequestInitialData(s, "s2")
       \/ ReadInitialData(s)
       \/ EmitInitialData(s)
  \/ \E c \in Clients : Connect(c)
  \/ \E c \in Clients : Disconnect(c)

\* While the process runs, the event loop runs every continuation whose
\* promise has settled, and the store ends every operation it was given.  No
\* step of a handler is enabled once the process has ended.
HandlerFairness ==
  \A s \in Slots :
    /\ WF_vars(TxUpdate(s))
    /\ WF_vars(TxRollbackStep(s))
    /\ WF_vars(ReadInitialData(s))
    /\ WF_vars(TxDeadlock(s))
    /\ WF_vars(TxEnd(s))
    /\ WF_vars(Respond(s))
    /\ WF_vars(ReadNewData(s))
    /\ WF_vars(EmitDataUpdated(s))
    /\ WF_vars(UnhandledRejection(s))
    /\ WF_vars(EmitInitialData(s))

ChannelSpec == InitWith({BoardStore}) /\ [][ChannelNext]_vars /\ HandlerFairness

\* ------------------------------------------------ every route and event
RouteContainerIds == {"contA", GhostId, MintContainerId(UuidPool[1])}
RouteItemIds == {"item1", GhostId, MintItemId(UuidPool[1])}

ContainerPatches == {[position |-> 0], [title |-> "b"]}
ItemPatches == {[position |-> 0], [containerId |-> "contB"],
                [containerId |-> MintContainerId(UuidPool[1])]}

Batches ==
  {<<Entry("contB", <<Upd("item1", 0)>>)>>,
   <<Entry("contA", <<Upd("item1", 1), Upd("item2", 0)>>)>>,
   <<Entry("contA", <<Upd("item2", 1), Upd("item1", 0)>>)>>,
   <<Entry(GhostId, <<Upd("item3", 0)>>)>>,
   <<Entry("contA", <<Upd("item2", 0), Upd(GhostId, 1)>>)>>}

Next ==
  \/ \E s \in Slots :
       \/ ListContainers(s)
       \/ \E id \in RouteContainerIds : GetContainer(s, id)
       \/ \E t \in {"a", ""} : CreateContainerStart(s, t)
       \/ \E c \in {"contA", GhostId}, t \in {"a", ""} : CreateItemStart(s, c, t)
       \/ CreateInsert(s)
       \/ \E id \in RouteContainerIds, p \in ContainerPatches :
            UpdateContainer(s, id, p)
       \/ \E id \in RouteContainerIds : DeleteContainer(s, id)
       \/ \E id \in RouteItemIds, p \in ItemPatches : UpdateItem(s, id, p)
       \/ \E id \in RouteItemIds : DeleteItem(s, id)
       \/ \E b \in Batches : HttpReorderStart(s, b)
       \/ \E b \in Batches : UpdatedItemsStart(s, "s1", b)
       \/ TxUpdate(s)
       \/ TxRollbackStep(s)
       \/ TxDeadlock(s)
       \/ TxEnd(s)
       \/ Respond(s)
       \/ ReadNewData(s)
       \/ EmitDataUpdated(s)
       \/ UnhandledRejection(s)
       \/ RequestInitialData(s, "s2")
       \/ ReadInitialData(s)
       \/ EmitInitialData(s)
  \/ \E c \in Clients : Connect(c)
  \/ \E c \in Clients : Disconnect(c)

Spec == Init /\ [][Next]_vars

\* ------------------------------------------------------------------ claims
FlatOf(s) == Flatten(req[s].batch)

\* The transaction of slot s is open: it runs its updates, or one has failed
\* and the ROLLBACK is to come.
InTx(s) == pc[s] \in {"tx", "rollback"}

\* The transaction of slot s ends in this step.
TxEnds(s) == InTx(s) /\ pc'[s] \notin {"tx", "rollback"}
TxCommits(s) == TxEnds(s) /\ loc'[s].committed
TxAborts(s) == TxEnds(s) /\ loc'[s].threw

NamesMissing(s) == \E n \in 1..Len(FlatOf(s)) : FlatOf(s)[n].id \notin DOMAIN pre[s].items

NoRepeat(f) == \A m, n \in 1..Len(f) : m # n => f[m].id # f[n].id

\* C1: a reorder (route or event) whose batch names an item id the store does
\* not hold never commits, and no step of it, the failing update and the
\* rollback included,
\* leaves any item with another (containerId, position) than before the call.
C1_AllOrNothing ==
  [][\A s \in Slots :
       (InTx(s) /\ NamesMissing(s)) =>
          /\ items' = pre[s].items
          /\ containers' = pre[s].containers
          /\ TxEnds(s) => /\ TxAborts(s) \/ pc'[s] = "cut"
                          /\ ~loc'[s].committed]_vars

\* A route reorder failed after it had issued an update, and the board is as
\* it was.
C1_Witness ==
  \E s \in Slots :
    /\ pc[s] = "done" /\ req[s].kind = "reorder"
    /\ loc[s].threw /\ loc[s].status = 500 /\ loc[s].k >= 1
    /\ items = BoardStore.items

ExampleAfter ==
  <<[id |-> "contA", title |-> "a", position |-> 0,
     items |-> <<[id |-> "item3", title |-> "a", position |-> 0, containerId |-> "contA"],
                 [id |-> "item1", title |-> "a", position |-> 1, containerId |-> "contA"],
                 [id |-> "item2", title |-> "b", position |-> 2, containerId |-> "contA"]>>],
    [id |-> "contB", title |-> "b", position |-> 1, items |-> <<>>]>>

\* C2: when a reorder without a repeated item id commits, every item of the
\* batch has the position given for it and the id of the enclosing batch
\* container as containerId; the example batch on the example board gives
\* contA = [item3, item1, item2] and contB = [].
C2_BatchApplied ==
  [][\A s \in Slots :
       (TxCommits(s) /\ NoRepeat(FlatOf(s))) =>
          /\ \A n \in 1..Len(FlatOf(s)) :
               /\ FlatOf(s)[n].id \in DOMAIN items'
               /\ items'[FlatOf(s)[n].id].position = FlatOf(s)[n].position
               /\ items'[FlatOf(s)[n].id].containerId = FlatOf(s)[n].containerId
          /\ (req[s].batch = ExampleBatch /\ pre[s].items = BoardStore.items)
               => Snapshots(containers', items') = {ExampleAfter}]_vars

\* The example batch has committed on the example board.
C2_Witness ==
  /\ lastReorder.valid /\ lastReorder.batch = ExampleBatch /\ lastReorder.rid = 1
  /\ Snapshots(containers, items) = {ExampleAfter}

Named(s) == {FlatOf(s)[n].id : n \in 1..Len(FlatOf(s))}

\* C3: a reorder that commits changes the position and containerId of the
\* items its batch names and nothing else: the other items, the set of item
\* ids, the titles and the containers are as before the call.
C3_Frame ==
  [][\A s \in Slots :
       TxCommits(s) =>
          /\ DOMAIN items' = DOMAIN pre[s].items
          /\ \A i \in DOMAIN pre[s].items \ Named(s) : items'[i] = pre[s].items[i]
          /\ \A i \in DOMAIN pre[s].items : items'[i].title = pre[s].items[i].title
          /\ containers' = pre[s].containers]_vars

\* A reorder has committed that moved item1 and named neither item2 nor item3.
C3_Witness ==
  /\ lastReorder.valid
  /\ \A n \in 1..Len(Flatten(lastReorder.batch)) :
       Flatten(lastReorder.batch)[n].id = "item1"
  /\ items["item1"] # BoardStore.items["item1"]
  /\ items["item2"] = BoardStore.items["item2"]
  /\ items["item3"] = BoardStore.items["item3"]

\* C4: a reorder that applies the batch the reorder before it committed,
\* nothing having run in between, commits too and leaves the items, and so
\* the snapshot, as the first application left them.
C4_Idempotent ==
  [][\A s \in Slots :
       (/\ TxEnds(s)
        /\ lastReorder.valid
        /\ pre[s].last = lastReorder
        /\ lastReorder.batch = req[s].batch) =>
          /\ TxCommits(s)
          /\ items' = items
          /\ Snapshots(containers', items') = Snapshots(containers, items)]_vars

\* The same batch has committed twice in a row, and it had changed the board.
C4_Witness ==
  /\ lastReorder.valid /\ lastReorder.repeat
  /\ items # BoardStore.items

\* C5: a create inserts its row at a position no row of the same scope holds:
\* no item of the container for an item, no container for a container.
C5_NoCollision ==
  [][\A s \in Slots :
       (pc[s] = "create" /\ pc'[s] = "answer" /\ loc'[s].reply = 201) =>
          IF req[s].kind = "createItem"
          THEN \A i \in ItemsOf(items, req[s].id) :
                 items[i].position # loc[s].newPosition
          ELSE \A c \in DOMAIN containers :
                 containers[c].position # loc[s].newPosition]_vars

Messages(c) == {inbox[c][n] : n \in 1..Len(inbox[c])}

\* C6: a channel reorder that has committed goes on to read the snapshot and
\* to emit it; the emit appends one 'dataUpdated' with the snapshot the
\* handler read after its commit to the inbox of every socket connected then,
\* the sender's included.
C6_BroadcastFollowsCommit ==
  /\ [][\A s \in Slots :
          /\ (pc[s] = "read" /\ pc'[s] # "read") =>
                /\ pc'[s] = "emit" /\ loc[s].committed
                /\ loc'[s].data \in Snapshots(containers, items)
          /\ (pc[s] = "emit" /\ req[s].kind = "updatedItems" /\ pc'[s] # "emit") =>
                \A c \in connected :
                   inbox'[c] = Append(inbox[c],
                                      Message("dataUpdated", loc[s].data, req[s].rid))]_vars
  /\ \A s \in Slots :
       (req[s].kind = "updatedItems" /\ loc[s].committed)
          ~> (pc[s] = "done" /\ req[s].kind = "updatedItems" /\ loc[s].committed)

\* C7: every 'dataUpdated' in an inbox comes from a channel reorder whose
\* transaction committed, and a channel reorder whose transaction aborted
\* emits nothing, then or later: while the other handlers go on committing,
\* reading and emitting, it stands at its ROLLBACK to come or at its pending
\* rejection, never at the re-read or the emit, and ends with the process.
C7_NoBroadcastOnAbort ==
  /\ \A c \in Clients : \A m \in Messages(c) :
       m.event = "dataUpdated" =>
          /\ req[m.rid].kind = "updatedItems"
          /\ loc[m.rid].committed /\ ~loc[m.rid].threw
  /\ \A s \in Slots :
       (req[s].kind = "updatedItems" /\ loc[s].threw) =>
          /\ pc[s] \in {"rollback", "reject", "exit", "cut"}
          /\ ~loc[s].committed
          /\ \A c \in Clients : \A m \in Messages(c) : m.rid # s

\* A channel reorder aborted after an update and its rejection is pending; the
\* process runs, and another channel reorder, committed, has re-read the store
\* and is about to emit to s1; no inbox holds a message of the aborted one.
C7_Witness ==
  \E s \in Slots :
    /\ pc[s] = "reject" /\ req[s].kind = "updatedItems"
    /\ loc[s].threw /\ loc[s].k >= 1
    /\ \A c \in Clients : \A m \in Messages(c) : m.rid # s
    /\ \E t \in Slots \ {s} :
         /\ pc[t] = "emit" /\ req[t].kind = "updatedItems" /\ loc[t].committed
         /\ "s1" \in connected

\* A handler reads a snapshot in this step.
Reads(s) ==
  \/ pc[s] \in {"read", "find"} /\ pc'[s] = "emit"
  \/ pc[s] = "idle" /\ pc'[s] # "idle" /\ req'[s].kind = "listContainers"

\* C8: the tables a snapshot is read from never hold part of a reorder: an
\* update of an open transaction leaves them as they are, an abort too, and
\* the commit writes every update of the batch in one step; every snapshot a
\* handler reads is a snapshot of these tables.
C8_NoPartialReorder ==
  [][/\ \A s \in Slots :
          InTx(s) =>
             /\ (pc'[s] = "tx" /\ loc'[s].k # loc[s].k) => items' = items
             /\ TxAborts(s) => items' = items
             /\ TxCommits(s) =>
                  \A i \in DOMAIN loc[s].buf :
                     /\ items'[i].position = loc[s].buf[i].position
                     /\ items'[i].containerId = loc[s].buf[i].containerId
     /\ \A t \in Slots :
          Reads(t) => loc'[t].data \in Snapshots(containers, items)]_vars

\* A snapshot was read while a transaction had issued an update and not ended.
C8_Witness ==
  \E t \in Slots :
    /\ loc[t].open # {}
    /\ req[t].kind \in {"listContainers", "requestInitialData", "updatedItems"}
    /\ loc[t].data # <<>>

\* C9: every item's containerId is the id of a container of the store.
C9_NoOrphans ==
  \A i \in DOMAIN items : items[i].containerId \in DOMAIN containers

\* C10: once the channel reorders submitted have all returned, the snapshot
\* last delivered to a connected socket is a snapshot of the store.
C10_Converged ==
  (/\ \A s \in Slots : pc[s] = "done" /\ req[s].kind = "updatedItems"
   /\ \A s \in Slots : loc[s].committed) =>
     \A c \in connected :
        inbox[c] # <<>> =>
           inbox[c][Len(inbox[c])].data \in Snapshots(containers, items)

\* C11: a route reorder (PATCH /api/containers-order-items) that has committed
\* does not return before every connected socket holds a 'dataUpdated' of it.
C11_RouteReorderBroadcasts ==
  [][\A s \in Slots :
       (/\ req[s].kind = "reorder"
        /\ pc[s] # "done" /\ pc'[s] = "done"
        /\ loc'[s].committed) =>
          \A c \in connected :
             \E n \in 1..Len(inbox'[c]) :
                /\ inbox'[c][n].event = "dataUpdated"
                /\ inbox'[c][n].rid = req[s].rid]_vars

\* C12: PATCH /api/containers/:id and PATCH /api/items/:id with a well-formed
\* id no row has leave both tables as they are and their handler with 404 to
\* answer, not 500.
C12_UpdateNotFound ==
  [][\A s \in Slots :
       /\ \A id \in RouteContainerIds, p \in ContainerPatches :
            (UpdateContainer(s, id, p) /\ ValidId(id)
               /\ id \notin DOMAIN containers) =>
               /\ loc'[s].reply = 404
               /\ containers' = containers /\ items' = items
       /\ \A id \in RouteItemIds, p \in ItemPatches :
            (UpdateItem(s, id, p) /\ ValidId(id) /\ ValidItemPatch(p)
               /\ id \notin DOMAIN items) =>
               /\ loc'[s].reply = 404
               /\ containers' = containers /\ items' = items]_vars

\* C13: DELETE /api/items/:id of an item the store holds removes that row
\* alone and leaves its handler with 204 to answer: every other item keeps
\* its row, the containers are as before, no snapshot of the store shows the
\* item, and an item that is gone does not come back.
C13_DeleteItemExact ==
  [][/\ \A s \in Slots, id \in RouteItemIds :
          (DeleteItem(s, id) /\ ValidId(id) /\ id \in DOMAIN items) =>
             /\ loc'[s].reply = 204
             /\ DOMAIN items' = DOMAIN items \ {id}
             /\ \A i \in DOMAIN items' : items'[i] = items[i]
             /\ containers' = containers
             /\ \A snap \in Snapshots(containers', items') :
                  \A n \in 1..Len(snap) : \A m \in 1..Len(snap[n].items) :
                     snap[n].items[m].id # id
     /\ \A i \in SeedItemIds : i \notin DOMAIN items => i \notin DOMAIN items']_vars

\* item1 was deleted from the head of contA and item2 is still at position 1.
C13_Witness ==
  \E s \in Slots :
    /\ pc[s] = "done" /\ req[s].kind = "deleteItem" /\ loc[s].status = 204
    /\ DOMAIN items = SeedItemIds \ {"item1"}
    /\ items["item2"] = BoardStore.items["item2"]
    /\ items["item3"] = BoardStore.items["item3"]
    /\ containers = BoardStore.containers

\* C14: a create that no write has overlapped (the table of its scope is as
\* it was when the request came in) inserts its row at 1 + the highest
\* position of the scope, at 0 in an empty scope, so above every row of the
\* scope: the items of the container for an item, the containers for a
\* container.
C14_AppendAfterMax ==
  [][\A s \in Slots :
       (pc[s] = "create" /\ pc'[s] = "answer" /\ loc'[s].reply = 201) =>
          IF req[s].kind = "createItem"
          THEN items = pre[s].items =>
                 \E i \in DOMAIN items' \ DOMAIN items :
                    /\ DOMAIN items' = DOMAIN items \cup {i}
                    /\ items'[i].containerId = req[s].id
                    /\ items'[i].position =
                         IF ItemsOf(items, req[s].id) = {} THEN 0
                         ELSE 1 + Max({items[j].position :
                                         j \in ItemsOf(items, req[s].id)})
                    /\ \A j \in ItemsOf(items, req[s].id) :
                         items[j].position < items'[i].position
          ELSE containers = pre[s].containers =>
                 \E c \in DOMAIN containers' \ DOMAIN containers :
                    /\ DOMAIN containers' = DOMAIN containers \cup {c}
                    /\ containers'[c].position =
                         IF DOMAIN containers = {} THEN 0
                         ELSE 1 + Max({containers[d].position :
                                         d \in DOMAIN containers})
                    /\ \A d \in DOMAIN containers :
                         containers[d].position < containers'[c].position]_vars

\* An item was created in contA at position 2 above item2 at position 1, with
\* item1 no longer in contA: the positions of contA have a gap at 0.
C14_Witness ==
  /\ "item2" \in DOMAIN items /\ items["item2"] = BoardStore.items["item2"]
  /\ "item1" \notin ItemsOf(items, "contA")
  /\ \E i \in DOMAIN items \ SeedItemIds :
       items[i].containerId = "contA" /\ items[i].position = 2

\* The last update of item i in the list of updates f.
LastOf(f, i) == f[Max({n \in 1..Len(f) : f[n].id = i})]

IdsOf(f) == {f[n].id : n \in 1..Len(f)}

\* The (containerId, position) a snapshot shows for item i.
PlacesIn(snap, i) ==
  UNION {{[containerId |-> snap[n].items[m].containerId,
           position |-> snap[n].items[m].position] :
            m \in {k \in 1..Len(snap[n].items) : snap[n].items[k].id = i}} :
         n \in 1..Len(snap)}

\* C15: when a reorder commits after another reorder that committed while it
\* was in flight, every item either batch names holds the containerId and the
\* position of one batch together: those of its own batch if that names the
\* item (its write is the later one), else those of the other batch.
C15_LastWriteWins ==
  [][\A s \in Slots :
       (TxCommits(s) /\ lastReorder.valid /\ lastReorder # pre[s].last) =>
          \A i \in IdsOf(FlatOf(s)) \cup IdsOf(Flatten(lastReorder.batch)) :
             LET w == IF i \in IdsOf(FlatOf(s)) THEN LastOf(FlatOf(s), i)
                      ELSE LastOf(Flatten(lastReorder.batch), i)
             IN  /\ items'[i].position = w.position
                 /\ items'[i].containerId = w.containerId]_vars

\* The first reorder committed after the second, which had moved item1 to a
\* place (shown by its broadcast) that is neither where item1 was at first nor
\* where the first reorder's commit left it.
C15_Witness ==
  /\ lastReorder.valid /\ lastReorder.rid = 1
  /\ pc[1] = "done" /\ loc[1].committed
  /\ pc[2] = "done" /\ loc[2].committed
  /\ "item1" \in IdsOf(Flatten(lastReorder.batch))
  /\ [containerId |-> items["item1"].containerId,
      position |-> items["item1"].position]
       = [containerId |-> LastOf(Flatten(lastReorder.batch), "item1").containerId,
          position |-> LastOf(Flatten(lastReorder.batch), "item1").position]
  /\ \E m \in Messages("s1") :
       /\ m.rid = 2 /\ m.event = "dataUpdated"
       /\ PlacesIn(m.data, "item1")
            # {[containerId |-> items["item1"].containerId,
                position |-> items["item1"].position]}
       /\ PlacesIn(m.data, "item1")
            # {[containerId |-> BoardStore.items["item1"].containerId,
                position |-> BoardStore.items["item1"].position]}

\* C16: every 'requestInitialData' reads one snapshot of the store and
\* emits exactly one 'initialData' with it, to the requesting socket and to
\* no other: the request step and the read change no inbox and no row, the
\* snapshot is one of the store as it is at the read, the emit step
\* appends the one message to the requester's inbox, no inbox ever holds a
\* second message or a 'dataUpdated' of the request, and every request comes
\* to its emit.
C16_InitialDataToRequester ==
  /\ [][\A s \in Slots :
          /\ (pc[s] = "idle" /\ pc'[s] # "idle"
                /\ req'[s].kind = "requestInitialData") =>
                /\ inbox' = inbox
                /\ containers' = containers /\ items' = items
          /\ (pc[s] = "find" /\ pc'[s] = "emit") =>
                /\ inbox' = inbox
                /\ containers' = containers /\ items' = items
                /\ loc'[s].data \in Snapshots(containers, items)
          /\ (pc[s] = "emit" /\ req[s].kind = "requestInitialData"
                /\ pc'[s] = "done") =>
                /\ containers' = containers /\ items' = items
                /\ \A c \in Clients :
                     inbox'[c] =
                       IF c = req[s].sock /\ c \in connected
                       THEN Append(inbox[c],
                                   Message("initialData", loc[s].data, req[s].rid))
                       ELSE inbox[c]]_vars
  /\ [](\A s \in Slots :
          req[s].kind = "requestInitialData" =>
             /\ \A c \in Clients \ {req[s].sock} :
                  \A m \in Messages(c) : m.rid # s
             /\ Cardinality({n \in 1..Len(inbox[req[s].sock]) :
                               inbox[req[s].sock][n].rid = s}) <= 1
             /\ \A m \in Messages(req[s].sock) :
                  m.rid = s => m.event = "initialData"
             /\ (pc[s] = "done" /\ req[s].sock \in connected) =>
                  Cardinality({n \in 1..Len(inbox[req[s].sock]) :
                                 inbox[req[s].sock][n].rid = s}) = 1)
  /\ \A s \in Slots :
       (req[s].kind = "requestInitialData")
          ~> (pc[s] = "done" /\ req[s].kind = "requestInitialData")

\* Snapshot a lists every container ascending in position and in each one
\* the items it owns, all of them, ascending in position.
OrderedAndComplete(a, cs, its) ==
  /\ Len(a) = Cardinality(DOMAIN cs)
  /\ {a[n].id : n \in 1..Len(a)} = DOMAIN cs
  /\ \A m, n \in 1..Len(a) : m < n => a[m].position <= a[n].position
  /\ \A n \in 1..Len(a) :
       /\ Len(a[n].items) = Cardinality(ItemsOf(its, a[n].id))
       /\ {a[n].items[m].id : m \in 1..Len(a[n].items)} = ItemsOf(its, a[n].id)
       /\ \A k, m \in 1..Len(a[n].items) :
            k < m => a[n].items[k].position <= a[n].items[m].position

\* C17: every snapshot findMany can return for the store lists the containers
\* and their items complete and ascending in position, and the store decides
\* the snapshot: two reads of the same store return the same order.
C17_SnapshotOrderFixed ==
  \A a, b \in Snapshots(containers, items) :
     /\ OrderedAndComplete(a, containers, items)
     /\ a = b

\* C18: a reorder whose batch has an entry for a container id the store does
\* not hold never commits, and its updates and its end leave every item as
\* it is.
C18_UnknownContainerRejected ==
  [][\A s \in Slots :
       (/\ InTx(s)
        /\ \E n \in 1..Len(req[s].batch) :
             req[s].batch[n].id \notin DOMAIN containers) =>
          /\ (pc'[s] = "tx" /\ loc'[s].k # loc[s].k) => items' = items
          /\ TxEnds(s) => (~loc'[s].committed /\ items' = items)]_vars

\* The writes of a transaction that has issued the updates f, in this order.
RECURSIVE BufOf(_)
BufOf(f) ==
  IF f = <<>> THEN EmptyFn
  ELSE TxWrite(BufOf(SubSeq(f, 1, Len(f) - 1)), f[Len(f)])

Perms(n) == {q \in [1..n -> 1..n] : \A a, b \in 1..n : a # b => q[a] # q[b]}

\* C19: a reorder that commits leaves every item its batch names with the
\* position and the containerId of the item's last update in the order of the
\* loops, also when the batch names the item more than once; a batch that
\* names no item twice gives the same items in whatever order its updates
\* are issued.
C19_LastOccurrenceWins ==
  [][\A s \in Slots :
       TxCommits(s) =>
          /\ \A i \in IdsOf(FlatOf(s)) :
               /\ items'[i].position = LastOf(FlatOf(s), i).position
               /\ items'[i].containerId = LastOf(FlatOf(s), i).containerId
          /\ NoRepeat(FlatOf(s)) =>
               \A q \in Perms(Len(FlatOf(s))) :
                  items' = TxCommit(items,
                                    BufOf([n \in 1..Len(FlatOf(s)) |->
                                             FlatOf(s)[q[n]]]))]_vars

\* A batch that names item1 twice, for two containers at two positions, has
\* committed and item1 is where the second entry puts it.
C19_Witness ==
  /\ lastReorder.valid
  /\ Len(Flatten(lastReorder.batch)) = 2
  /\ LET f == Flatten(lastReorder.batch)
     IN  /\ f[1].id = "item1" /\ f[2].id = "item1"
         /\ f[1].containerId # f[2].containerId
         /\ f[1].position # f[2].position
         /\ items["item1"].containerId = f[2].containerId
         /\ items["item1"].position = f[2].position

\* An id built by POST /api/containers or POST /api/containers/:id/items.
Minted(id) == \E u \in Uuids : id \in {MintContainerId(u), MintItemId(u)}

\* C20: a route that takes an id does not answer 400 when the id is one a
\* create minted and the store holds: GET, PATCH and DELETE of a container,
\* PATCH and DELETE of an item.
C20_MintedIdAccepted ==
  [][\A s \in Slots :
       /\ \A id \in RouteContainerIds :
            (Minted(id) /\ id \in DOMAIN containers) =>
               /\ GetContainer(s, id) => loc'[s].status # 400
               /\ DeleteContainer(s, id) => loc'[s].status # 400
               /\ \A p \in ContainerPatches :
                    UpdateContainer(s, id, p) => loc'[s].status # 400
       /\ \A id \in RouteItemIds :
            (Minted(id) /\ id \in DOMAIN items) =>
               /\ DeleteItem(s, id) => loc'[s].status # 400
               /\ \A p \in ItemPatches :
                    (UpdateItem(s, id, p) /\ ValidItemPatch(p)) =>
                       loc'[s].status # 400]_vars

====
